---- MODULE Spec2Model ----
(***************************************************************************)
(* A model of the RAG chatbot back ends: the ingest endpoints of           *)
(* backend/app.py and backend/app_enhanced.py over the shared Qdrant       *)
(* collection, the query path (retrieve, answer_question, and the Django   *)
(* service's query), the text functions normalize_text, _chunk_text and    *)
(* _load_document, ingest_files step by step, the conversation history of  *)
(* the asks, and the documents table with app_enhanced.py's ingest and     *)
(* delete_document.                                                        *)
(*                                                                         *)
(* Strings whose characters matter are sequences of one-character strings; *)
(* a fixed message is a one-element sequence holding the message.          *)
(***************************************************************************)
EXTENDS Integers, Sequences, FiniteSets, TLC

VARIABLES
  apiKey,   \* whether OPENAI_API_KEY is set in the environment
  coll,     \* the Qdrant collection COLLECTION_NAME: exists, vector size, points
  req,      \* the ingest requests: one record per request
  ask,      \* the query request being served
  djIndex,  \* ImprovedRAGService.index is not None
  sess,     \* a conversation session: its stored messages and the ask using it
  batch,    \* one call of ingest_files: its files, its points, its position
  fn,       \* one call of a text function: its arguments and what it returned
  documents, \* the documents table of app_enhanced.py's database
  up        \* app_enhanced.py's document endpoints: the ingest being served,
            \* and what delete_document was called on

vars == <<apiKey, coll, req, ask, djIndex, sess, batch, fn, documents, up>>

----------------------------------------------------------------------------
(* Bounds of the model. *)

NReq == 2
MaxFiles == 1
MaxChunks == 1

(* Program constants. *)

OpenAIDim == 1536
MiniLMDim == 384

Req == 1..NReq

----------------------------------------------------------------------------
(* Embedding back end *)

\* get_embedding_backend().dim: the OpenAI back end when the key is set.
BackendDim(key) == IF key THEN OpenAIDim ELSE MiniLMDim

\* The environment variable is set or unset outside the request handlers.
SetApiKey ==
  /\ apiKey' = ~apiKey
  /\ UNCHANGED <<coll, req, ask, djIndex, sess, batch, fn, documents, up>>

----------------------------------------------------------------------------
(* The collection *)

NoCollection == [exists |-> FALSE, size |-> 0, points |-> {}]

\* qclient.recreate_collection: drops the collection if present and creates
\* it empty with the given vector size.
RecreateCollection(dim) == [exists |-> TRUE, size |-> dim, points |-> {}]

\* qclient.upsert is accepted when the collection exists and the vectors
\* have its size.
UpsertAccepted(c, dim) == c.exists /\ c.size = dim

Upsert(c, pts) == [c EXCEPT !.points = @ \cup pts]

----------------------------------------------------------------------------
(* Ingest requests *)

IdleReq ==
  [app |-> "none", pc |-> "idle", dim |-> 0, found |-> "none",
   created |-> FALSE, upserted |-> {}, result |-> [kind |-> "none"]]

\* The k points a request builds: fresh ids (uuid4), here <<request, ordinal>>.
PointsOf(r, k) == {<<r, j>> : j \in 1..k}

DocIds(r, n) == [i \in 1..n |-> <<r, i>>]

\* IngestResponse of the mismatch branch of backend/app.py.
MismatchResponse ==
  [kind |-> "response", doc_ids |-> <<>>, chunks_indexed |-> 0,
   files_processed |-> 0, details |-> "error"]

IngestResponse(r, n, k) ==
  [kind |-> "response", doc_ids |-> DocIds(r, n), chunks_indexed |-> k,
   files_processed |-> n, details |-> "none"]

HttpError(code) == [kind |-> "http_error", status |-> code]

\* An ingest request arrives: emb = get_embedding_backend(); dim = emb.dim.
\* Requests are numbered in the order of their arrival.
Arrives(r) ==
  /\ req[r].pc = "idle"
  /\ IF r = 1 THEN TRUE ELSE req[r - 1].pc # "idle"

\* What qclient.get_collection and the read of info.config.params.vectors.size
\* give the handler: "absent" (the call raises, no such collection), "failed"
\* (the call or the read raises although the collection exists), "mismatch"
\* or "present".
LookupOutcome(c, dim, fails) ==
  IF ~c.exists THEN "absent"
  ELSE IF fails THEN "failed"
  ELSE IF c.size # dim THEN "mismatch"
  ELSE "present"

\* backend/app.py, up to the lookup: a mismatch returns the error response from inside the try;
\* any exception leaves exists = False.
BasicLookupMut(r, fails) ==
  LET dim == BackendDim(apiKey)
      o == LookupOutcome(coll, dim, fails)
  IN
  /\ Arrives(r)
  /\ req' = [req EXCEPT ![r] = [IdleReq EXCEPT
                !.app = "basic", !.dim = dim, !.found = o,
                !.pc = IF o = "present" THEN "files" ELSE "create"]]
  /\ UNCHANGED <<apiKey, coll, ask, djIndex, sess, batch, fn, documents, up>>

BasicLookup(r, fails) ==
  LET dim == BackendDim(apiKey)
      o == LookupOutcome(coll, dim, fails)
  IN
  /\ Arrives(r)
  /\ req' = [req EXCEPT ![r] = [IdleReq EXCEPT
                !.app = "basic", !.dim = dim, !.found = o,
                !.pc = CASE o = "mismatch" -> "done"
                         [] o = "present" -> "files"
                         [] OTHER -> "create",
                !.result = IF o = "mismatch" THEN MismatchResponse ELSE @]]
  /\ UNCHANGED <<apiKey, coll, ask, djIndex, sess, batch, fn, documents, up>>

\* backend/app_enhanced.py, up to the lookup: the HTTPException(400) of a mismatch is raised
\* inside the try whose handler is "except Exception: exists = False".
EnhancedLookup(r, fails) ==
  LET dim == BackendDim(apiKey)
      o == LookupOutcome(coll, dim, fails)
  IN
  /\ Arrives(r)
  /\ req' = [req EXCEPT ![r] = [IdleReq EXCEPT
                !.app = "enhanced", !.dim = dim, !.found = o,
                !.pc = IF o = "present" THEN "files" ELSE "create"]]
  /\ UNCHANGED <<apiKey, coll, ask, djIndex, sess, batch, fn, documents, up>>

\* if not exists: qclient.recreate_collection(...)
CreateCollection(r) ==
  /\ req[r].pc = "create"
  /\ coll' = RecreateCollection(req[r].dim)
  /\ req' = [req EXCEPT ![r].created = TRUE, ![r].pc = "files"]
  /\ UNCHANGED <<apiKey, ask, djIndex, sess, batch, fn, documents, up>>

\* The n uploaded files are saved and ingest_files runs: k chunks are built
\* and embedded and, when there are any, upserted in one call. An exception
\* of the embedding call (the remote back end) or of the upsert leaves the
\* handler as an HTTP 500.
IngestFiles(r, n, k, embedOk) ==
  /\ req[r].pc = "files"
  /\ embedOk \/ req[r].dim = OpenAIDim
  /\ LET pts == PointsOf(r, k)
     IN IF k > 0 /\ ~embedOk
        THEN /\ req' = [req EXCEPT ![r].pc = "done", ![r].result = HttpError(500)]
             /\ coll' = coll
        ELSE IF k > 0 /\ ~UpsertAccepted(coll, req[r].dim)
        THEN /\ req' = [req EXCEPT ![r].pc = "done", ![r].result = HttpError(500)]
             /\ coll' = coll
        ELSE /\ coll' = IF k > 0 THEN Upsert(coll, pts) ELSE coll
             /\ req' = [req EXCEPT ![r].pc = "done", ![r].upserted = pts,
                                   ![r].result = IngestResponse(r, n, k)]
  /\ UNCHANGED <<apiKey, ask, djIndex, sess, batch, fn, documents, up>>

----------------------------------------------------------------------------
(* Text *)

Rep(c, n) == [i \in 1..n |-> c]

\* The model's character for U+00A0, the no-break space.
NBSP == "nbsp"

\* The characters that str.strip(), str.split() and the pattern \s take for
\* white space; U+00A0 is one of them.
IsSpace(c) == c \in {" ", "\t", "\n", NBSP}

\* str.strip()
RECURSIVE LStrip(_)
LStrip(s) == IF s # <<>> /\ IsSpace(Head(s)) THEN LStrip(Tail(s)) ELSE s

RECURSIVE RStrip(_)
RStrip(s) ==
  IF s # <<>> /\ IsSpace(s[Len(s)]) THEN RStrip(SubSeq(s, 1, Len(s) - 1)) ELSE s

Strip(s) == RStrip(LStrip(s))

\* s[:n]
Take(s, n) == SubSeq(s, 1, IF n < Len(s) THEN n ELSE Len(s))

\* The places where the separator ". " starts in s.
SepAt(s) == {i \in 1..(Len(s) - 1) : s[i] = "." /\ s[i + 1] = " "}

Min(S) == CHOOSE x \in S : \A y \in S : x <= y

\* s.split('. '): the pieces between the separators, left to right.
RECURSIVE Split(_)
Split(s) ==
  IF SepAt(s) = {} THEN <<s>>
  ELSE LET i == Min(SepAt(s))
       IN <<SubSeq(s, 1, i - 1)>> \o Split(SubSeq(s, i + 2, Len(s)))

\* d.get(key, default)
Get(d, key, default) == IF key \in DOMAIN d THEN d[key] ELSE default

Max(a, b) == IF a >= b THEN a ELSE b

Indices(s) == [i \in 1..Len(s) |-> i]

\* text.replace("\u00A0", " ")
ReplaceNBSP(s) == [i \in 1..Len(s) |-> IF s[i] = NBSP THEN " " ELSE s[i]]

\* re.sub(r"\s+", " ", text): every maximal run of white space becomes one
\* space; the characters kept are the others and the first of each run.
CollapseSpace(s) ==
  LET FirstOfRun(i) ==
        IF IsSpace(s[i]) THEN (IF i = 1 THEN TRUE ELSE ~IsSpace(s[i - 1])) ELSE TRUE
      kept == SelectSeq(Indices(s), FirstOfRun)
  IN [j \in 1..Len(kept) |-> IF IsSpace(s[kept[j]]) THEN " " ELSE s[kept[j]]]

NormalizeTextMut(text) == CollapseSpace(ReplaceNBSP(text))

\* normalize_text (backend/utils.py)
NormalizeText(text) == Strip(CollapseSpace(ReplaceNBSP(text)))

\* text.split(): the maximal runs of characters that are not white space.
Tokens(s) ==
  LET Starts(i) ==
        IF IsSpace(s[i]) THEN FALSE ELSE (IF i = 1 THEN TRUE ELSE IsSpace(s[i - 1]))
      Ends(i) ==
        IF IsSpace(s[i]) THEN FALSE
        ELSE (IF i = Len(s) THEN TRUE ELSE IsSpace(s[i + 1]))
      starts == SelectSeq(Indices(s), Starts)
      ends == SelectSeq(Indices(s), Ends)
  IN [k \in 1..Len(starts) |-> SubSeq(s, starts[k], ends[k])]

\* sep.join(parts): the parts with sep between neighbours, computed by
\* halving.
RECURSIVE Join(_, _)
Join(sep, parts) ==
  IF parts = <<>> THEN <<>>
  ELSE IF Len(parts) = 1 THEN parts[1]
  ELSE LET h == Len(parts) \div 2
       IN Join(sep, SubSeq(parts, 1, h)) \o <<sep>>
            \o Join(sep, SubSeq(parts, h + 1, Len(parts)))

\* " ".join(parts)
JoinSpace(parts) == Join(" ", parts)

----------------------------------------------------------------------------
(* _chunk_text (backend/ingest.py) *)

TargetTokens == 400
OverlapPct == 20

\* 1 - overlap_ratio in double precision, for the ratio pct/100: 1 - 0.8 is
\* 0.19999999999999996 and 1 - 0.9 is 0.09999999999999998, just short of the
\* decimal values, so that a product with target_tokens that would be whole
\* falls just short of it. For target sizes below 25 these are the only
\* ratios in hundredths where the double product and the exact one have
\* different integer parts.
FallsShort(target, pct) ==
  \/ pct = 80 /\ target % 5 = 0
  \/ pct = 90 /\ target % 10 = 0

\* int(target_tokens * (1 - overlap_ratio)) for the ratio pct/100: the
\* integer part of the double product (int(10 * (1 - 0.8)) is 1).
IntOfProduct(target, pct) ==
  LET exact == (target * (100 - pct)) \div 100
  IN IF FallsShort(target, pct) THEN {exact - 1} ELSE {exact}

\* step = max(1, int(...)): the values the step can take.
Steps(target, pct) == {Max(1, v) : v \in IntOfProduct(target, pct)}

RECURSIVE WindowsMut(_, _, _, _)
WindowsMut(n, target, step, start) ==
  IF start >= n THEN <<>>
  ELSE LET end == IF n < start + target THEN n ELSE start + target
       IN <<[start |-> start, end |-> end]>> \o WindowsMut(n, target, step, start + step)

\* The starts range(0, n, step) visits up to and including the one whose
\* window reaches n, where the loop breaks.
RECURSIVE Windows(_, _, _, _)
Windows(n, target, step, start) ==
  IF start >= n THEN <<>>
  ELSE LET end == IF n < start + target THEN n ELSE start + target
       IN <<[start |-> start, end |-> end]>>
            \o (IF end = n THEN <<>> ELSE Windows(n, target, step, start + step))

ChunkWindowsMut(n, target, step) ==
  IF n = 0 THEN <<>> ELSE Windows(n - 1, target, step, 0)

\* The half-open token ranges [start, end) that _chunk_text emits for n
\* tokens.
ChunkWindows(n, target, step) ==
  IF n = 0 THEN <<>> ELSE Windows(n, target, step, 0)

ChunkTextMut(text, target, step) ==
  LET tokens == Tokens(text)
      w == ChunkWindows(Len(tokens), target, step)
  IN [k \in 1..Len(w) |-> JoinSpace(SubSeq(tokens, w[k].start + 2, w[k].end))]

\* _chunk_text(text, target_tokens, overlap_ratio), the step taken from
\* Steps: tokens[start:end] is SubSeq(tokens, start + 1, end).
ChunkText(text, target, step) ==
  LET tokens == Tokens(text)
      w == ChunkWindows(Len(tokens), target, step)
  IN [k \in 1..Len(w) |-> JoinSpace(SubSeq(tokens, w[k].start + 1, w[k].end))]

----------------------------------------------------------------------------
(* Calls of normalize_text and _chunk_text on their own: the arguments are *)
(* fixed at the start, then the function is applied.                       *)

MaxLen == 5
MaxTarget == 3
MaxTokens == 12
MaxWindow == 10

\* The characters of the texts normalized, and of the texts chunked.
Alphabet == {"a", " ", "\t", "\n", NBSP}
ChunkAlphabet == {"a", " ", NBSP}

RECURSIVE StringsOfLen(_, _)
StringsOfLen(A, n) ==
  IF n = 0 THEN {<<>>}
  ELSE {Append(t, c) : t \in StringsOfLen(A, n - 1), c \in A}

Strings(A) == UNION {StringsOfLen(A, n) : n \in 0..MaxLen}

\* The overlap ratios tried on texts, in hundredths.
Pcts == {0, 20, 50, 90, 99}

IdleFn ==
  [kind |-> "none", op |-> "none", text |-> <<>>, n |-> 0, target |-> 0, pct |-> 0,
   step |-> 0, windows |-> <<>>, chunks |-> <<>>, norm |-> <<>>, again |-> <<>>,
   file |-> [filename |-> "", pages |-> <<>>], spans |-> <<>>, raised |-> FALSE]

\* A text to normalize.
NormInputs == {[IdleFn EXCEPT !.kind = "normalize", !.text = t] : t \in Strings(Alphabet)}

\* A text to chunk, with a target size and an overlap ratio.
ChunkInputs ==
  {[IdleFn EXCEPT !.kind = "chunk", !.text = t, !.target = g, !.pct = p] :
     t \in Strings(ChunkAlphabet), g \in 1..MaxTarget, p \in Pcts}

\* A number of tokens with a target size and an overlap ratio.
CountInputs ==
  {[IdleFn EXCEPT !.kind = "count", !.n = n, !.target = g, !.pct = p] :
     n \in 0..MaxTokens, g \in 1..MaxWindow, p \in 0..99}

Others == <<apiKey, coll, req, ask, djIndex, documents, up>>

\* normalize_text(text)
NormalizeCall ==
  /\ fn.kind = "normalize" /\ fn.op = "none"
  /\ fn' = [fn EXCEPT !.op = "normalize", !.norm = NormalizeText(fn.text)]
  /\ UNCHANGED <<Others, sess, batch>>

\* normalize_text applied to what normalize_text returned
NormalizeAgain ==
  /\ fn.op = "normalize"
  /\ fn' = [fn EXCEPT !.op = "normalized", !.again = NormalizeText(fn.norm)]
  /\ UNCHANGED <<Others, sess, batch>>

\* _chunk_text(text, target_tokens, overlap_ratio)
ChunkCall(step) ==
  /\ fn.kind = "chunk" /\ fn.op = "none"
  /\ step \in Steps(fn.target, fn.pct)
  /\ fn' = [fn EXCEPT !.op = "chunk", !.step = step, !.n = Len(Tokens(fn.text)),
                      !.windows = ChunkWindows(Len(Tokens(fn.text)), fn.target, step),
                      !.chunks = ChunkText(fn.text, fn.target, step)]
  /\ UNCHANGED <<Others, sess, batch>>

\* The loop of _chunk_text over a text of n tokens: the token ranges.
WindowsCall(step) ==
  /\ fn.kind = "count" /\ fn.op = "none"
  /\ step \in Steps(fn.target, fn.pct)
  /\ fn' = [fn EXCEPT !.op = "windows", !.step = step,
                      !.windows = ChunkWindows(fn.n, fn.target, step)]
  /\ UNCHANGED <<Others, sess, batch>>

----------------------------------------------------------------------------
(* ingest_files (backend/ingest.py), step by step: the files are loaded    *)
(* and chunked one after the other, then all chunks are embedded, then     *)
(* upserted, then the result is returned.                                  *)

MaxBatch == 2

\* n one-letter words separated by single spaces.
Words(n) == [i \in 1..(2 * n - 1) |-> IF i % 2 = 1 THEN "a" ELSE " "]

\* The uploaded files: a name and, for a PDF, what extract_text gives for
\* each page, for any other file its content as the one entry.
FileKinds ==
  {[filename |-> "a.txt", pages |-> << <<" ", "a", NBSP, " ", "b", "\n">> >>],
   [filename |-> "blank.md", pages |-> << <<" ", "\n">> >>],
   [filename |-> "b.pdf", pages |-> << <<"a", " ", " ", "b">>, <<>>, <<"c">> >>],
   [filename |-> "full.txt", pages |-> <<Words(TargetTokens)>>],
   [filename |-> "long.txt", pages |-> <<Words(TargetTokens + 1)>>]}

Batches == UNION {[1..n -> FileKinds] : n \in 1..MaxBatch}

\* Path(filename).suffix of the names used here: the part from the last dot
\* of the name on, empty when there is none.
Suffix(filename) ==
  CASE filename \in {"a.txt", "full.txt", "long.txt"} -> ".txt"
    [] filename = "blank.md" -> ".md"
    [] filename = "n.markdown" -> ".markdown"
    [] filename = "b.pdf" -> ".pdf"
    [] filename = "B.PDF" -> ".PDF"
    [] filename = "x.docx" -> ".docx"
    [] OTHER -> ""

\* str.lower() on these suffixes
Lower(ext) == IF ext = ".PDF" THEN ".pdf" ELSE ext

\* What page.extract_text() gives besides a text: None, or an exception.
NoneValue == <<"None">>
ExtractRaises == <<"raise">>

\* parse_pdf_pages: (i + 1, normalize_text(page.extract_text() or "")) for
\* each page in order.
ParsePdfPages(pages) ==
  [i \in 1..Len(pages) |->
     <<i, NormalizeText(IF pages[i] \in {NoneValue, <<>>} THEN <<>> ELSE pages[i])>>]

\* An exception of page.extract_text() is caught neither in parse_pdf_pages
\* nor in _load_document and leaves both.
LoadRaises(f) ==
  /\ Lower(Suffix(f.filename)) = ".pdf"
  /\ \E i \in 1..Len(f.pages) : f.pages[i] = ExtractRaises

\* _load_document when nothing raises: a .pdf name (in any case) gives
\* (pnum, pnum, text) per page of parse_pdf_pages; .md, .markdown, .txt and
\* every other suffix give the one span (1, 1, normalize_text(f.read())),
\* the file's content being the one entry of pages.
LoadDocument(f) ==
  IF Lower(Suffix(f.filename)) = ".pdf"
  THEN LET pages == ParsePdfPages(f.pages)
       IN [i \in 1..Len(pages) |->
             [page_start |-> pages[i][1], page_end |-> pages[i][1],
              text |-> pages[i][2]]]
  ELSE IF Lower(Suffix(f.filename)) \in {".md", ".markdown", ".txt"}
  THEN <<[page_start |-> 1, page_end |-> 1, text |-> NormalizeText(f.pages[1])]>>
  ELSE <<[page_start |-> 1, page_end |-> 1, text |-> NormalizeText(f.pages[1])]>>

\* Calls of _load_document on its own. The texts a page or a file may hold,
\* and the files: PDFs of up to MaxPages pages under .pdf names, and one
\* content under every other name.
MaxPages == 3

PageTexts ==
  {<<>>, <<"a">>, <<" ", "a", NBSP, " ", "b", "\n">>, <<"\n", " ">>}

PdfFiles ==
  {[filename |-> name, pages |-> pages] :
     name \in {"b.pdf", "B.PDF"},
     pages \in UNION {[1..n -> PageTexts \cup {NoneValue, ExtractRaises}] :
                        n \in 0..MaxPages}}

TextFiles ==
  {[filename |-> name, pages |-> <<t>>] :
     name \in {"a.txt", "blank.md", "n.markdown", "x.docx", "notes"},
     t \in PageTexts}

LoadInputs == {[IdleFn EXCEPT !.kind = "load", !.file = f] : f \in PdfFiles \cup TextFiles}

\* _load_document(path, filename)
LoadCall ==
  /\ fn.kind = "load" /\ fn.op = "none"
  /\ IF LoadRaises(fn.file)
     THEN fn' = [fn EXCEPT !.op = "load", !.raised = TRUE]
     ELSE fn' = [fn EXCEPT !.op = "load", !.spans = LoadDocument(fn.file)]
  /\ UNCHANGED <<Others, sess, batch>>

\* The step of _chunk_text's defaults: 400 * (1 - 0.2) is 320.0 exactly.
DefaultStep == Max(1, (TargetTokens * (100 - OverlapPct)) \div 100)

RECURSIVE SpanPointsMut(_, _, _, _, _, _)
SpanPointsMut(spans, j, doc_id, filename, chunk_idx, uuid) ==
  IF j > Len(spans) THEN <<>>
  ELSE LET text == NormalizeText(spans[j].text)
           chunks == IF text = <<>> THEN <<>>
                     ELSE ChunkText(text, TargetTokens, DefaultStep)
           pts == [c \in 1..Len(chunks) |->
                     [id |-> uuid + c - 1,
                      vector |-> "placeholder",
                      payload |-> [doc_id |-> doc_id,
                                   filename |-> filename,
                                   page_start |-> spans[j].page_start,
                                   page_end |-> spans[j].page_end,
                                   chunk_id |-> <<doc_id, c - 1>>,
                                   text |-> chunks[c]]]]
       IN pts \o SpanPointsMut(spans, j + 1, doc_id, filename,
                               chunk_idx + Len(chunks), uuid + Len(chunks))

\* Lines 114-137 from span j on: the points of the remaining spans of one
\* file, chunk_idx counting the file's chunks and uuid being the next fresh
\* identifier.
RECURSIVE SpanPoints(_, _, _, _, _, _)
SpanPoints(spans, j, doc_id, filename, chunk_idx, uuid) ==
  IF j > Len(spans) THEN <<>>
  ELSE LET text == NormalizeText(spans[j].text)
           chunks == IF text = <<>> THEN <<>>
                     ELSE ChunkText(text, TargetTokens, DefaultStep)
           pts == [c \in 1..Len(chunks) |->
                     [id |-> uuid + c - 1,
                      vector |-> "placeholder",
                      payload |-> [doc_id |-> doc_id,
                                   filename |-> filename,
                                   page_start |-> spans[j].page_start,
                                   page_end |-> spans[j].page_end,
                                   chunk_id |-> <<doc_id, chunk_idx + c - 1>>,
                                   text |-> chunks[c]]]]
       IN pts \o SpanPoints(spans, j + 1, doc_id, filename,
                            chunk_idx + Len(chunks), uuid + Len(chunks))

IdleBatch ==
  [pc |-> "idle", files |-> <<>>, i |-> 0, uuid |-> 0, doc_ids |-> <<>>,
   points |-> <<>>, total_chunks |-> 0, cause |-> "none", writes |-> 0,
   written |-> {}, before |-> {}, result |-> [kind |-> "none"]]

\* A point already in the collection when the call starts.
OldPoint ==
  [id |-> 0, vector |-> "embedded",
   payload |-> [doc_id |-> 0, filename |-> "old.txt", page_start |-> 1,
                page_end |-> 1, chunk_id |-> <<0, 0>>, text |-> <<"o", "l", "d">>]]

\* Lines 109-137 for one file: a fresh doc_id, the file loaded, its spans
\* chunked into points. An exception of _load_document is not caught and
\* leaves ingest_files.
BatchLoad(loadOk) ==
  /\ batch.pc = "load"
  /\ LET f == batch.files[batch.i]
         doc_id == batch.uuid
     IN IF ~loadOk
        THEN batch' = [batch EXCEPT !.pc = "raised", !.cause = "load",
                                    !.uuid = @ + 1,
                                    !.doc_ids = Append(@, doc_id)]
        ELSE LET pts == SpanPoints(LoadDocument(f), 1, doc_id, f.filename, 0,
                                   batch.uuid + 1)
             IN batch' = [batch EXCEPT
                            !.pc = IF batch.i = Len(batch.files) THEN "embed" ELSE "load",
                            !.i = @ + 1,
                            !.uuid = @ + 1 + Len(pts),
                            !.doc_ids = Append(@, doc_id),
                            !.points = @ \o pts,
                            !.total_chunks = @ + Len(pts)]
  /\ UNCHANGED <<Others, sess, fn>>

BatchEmbedMut(embedOk) ==
  /\ batch.pc = "embed"
  /\ coll' = Upsert(coll, {batch.points[k] : k \in 1..Len(batch.points)})
  /\ IF embedOk
     THEN batch' = [batch EXCEPT
                      !.pc = "upsert",
                      !.points = [k \in 1..Len(@) |-> [@[k] EXCEPT !.vector = "embedded"]]]
     ELSE batch' = [batch EXCEPT !.pc = "raised", !.cause = "embed"]
  /\ UNCHANGED <<apiKey, req, ask, djIndex, sess, fn, documents, up>>

\* Lines 140-143: all texts are embedded in one call, which may raise.
BatchEmbed(embedOk) ==
  /\ batch.pc = "embed"
  /\ IF embedOk
     THEN batch' = [batch EXCEPT
                      !.pc = "upsert",
                      !.points = [k \in 1..Len(@) |-> [@[k] EXCEPT !.vector = "embedded"]]]
     ELSE batch' = [batch EXCEPT !.pc = "raised", !.cause = "embed"]
  /\ UNCHANGED <<Others, sess, fn>>

Range(s) == {s[k] : k \in 1..Len(s)}

\* Lines 145-146: one upsert of all the points when there are any; it may
\* raise.
BatchUpsert(upsertOk) ==
  /\ batch.pc = "upsert"
  /\ IF batch.points = <<>>
     THEN /\ batch' = [batch EXCEPT !.pc = "return"]
          /\ coll' = coll
     ELSE IF upsertOk
     THEN /\ coll' = Upsert(coll, Range(batch.points))
          /\ batch' = [batch EXCEPT !.pc = "return", !.writes = @ + 1,
                                    !.written = Range(batch.points)]
     ELSE /\ batch' = [batch EXCEPT !.pc = "raised", !.cause = "upsert"]
          /\ coll' = coll
  /\ UNCHANGED <<apiKey, req, ask, djIndex, sess, fn, documents, up>>

BatchReturnMut ==
  /\ batch.pc = "return"
  /\ batch' = [batch EXCEPT
                 !.pc = "returned",
                 !.result = [kind |-> "response", doc_ids |-> batch.doc_ids,
                             chunks_indexed |-> Len(batch.doc_ids),
                             files_processed |-> Len(batch.files)]]
  /\ UNCHANGED <<Others, sess, fn>>

\* Lines 148-152
BatchReturn ==
  /\ batch.pc = "return"
  /\ batch' = [batch EXCEPT
                 !.pc = "returned",
                 !.result = [kind |-> "response", doc_ids |-> batch.doc_ids,
                             chunks_indexed |-> batch.total_chunks,
                             files_processed |-> Len(batch.files)]]
  /\ UNCHANGED <<Others, sess, fn>>

\* The call is abandoned before the upsert: the request is cancelled or
\* the worker stops.
BatchAbort ==
  /\ batch.pc \in {"load", "embed", "upsert"}
  /\ batch' = [batch EXCEPT !.pc = "aborted"]
  /\ UNCHANGED <<Others, sess, fn>>

----------------------------------------------------------------------------
(* The indexed points of the query side: point p is chunk p of the corpus, *)
(* stored as ingest_files stores it.                                       *)

\* The chunk texts: normalized, non-empty, of the lengths and shapes the
\* stub answer distinguishes.
TextOf(p) ==
  CASE p % 9 = 1 -> <<"P", "a", "r", "i", "s", ".">>
    [] p % 9 = 2 -> Rep("a", 100)
    [] p % 9 = 3 -> Rep("a", 101)
    [] p % 9 = 4 -> Rep("a", 301)
    [] p % 9 = 5 -> Rep("a", 60) \o <<".", " ">> \o Rep("b", 60)
    [] p % 9 = 6 -> Rep("a", 40) \o <<".", " ">> \o Rep("b", 40)
                      \o <<".", " ">> \o Rep("c", 40) \o <<".">>
    [] p % 9 = 7 -> <<".", " ">> \o Rep("b", 120)
    [] p % 9 = 8 -> Rep("a", 300)
    [] OTHER -> Rep("a", 150) \o <<".", " ", ".", " ">> \o Rep("b", 200)

Payload(p) ==
  [doc_id |-> (p + 1) \div 2,
   filename |-> IF p % 2 = 0 THEN "a.pdf" ELSE "b.txt",
   page_start |-> 1 + (p % 3),
   page_end |-> 1 + (p % 3),
   chunk_id |-> <<(p + 1) \div 2, p % 2>>,
   text |-> TextOf(p)]

----------------------------------------------------------------------------
(* retrieve (backend/retriever.py) *)

CoarseLimit == 24
Keep == 4

\* The cosine similarity of the question and point p, and the cross-encoder's
\* score of the pair: fixed by the models, here small integers with ties.
Sim(q, p) == (p * (q + 2)) % 7
RerankScore(q, p) == (p * q + q) % 11

InsertDescMut(s, x) ==
  LET k == Cardinality({i \in 1..Len(s) : s[i][2] > x[2]})
  IN SubSeq(s, 1, k) \o <<x>> \o SubSeq(s, k + 1, Len(s))

\* Inserts pair x after the pairs of the descending sequence s whose score
\* is at least x's.
InsertDesc(s, x) ==
  LET k == Cardinality({i \in 1..Len(s) : s[i][2] >= x[2]})
  IN SubSeq(s, 1, k) \o <<x>> \o SubSeq(s, k + 1, Len(s))

\* sorted(pairs, key=lambda x: x[1], reverse=True): stable.
RECURSIVE SortDesc(_)
SortDesc(s) ==
  IF s = <<>> THEN <<>>
  ELSE InsertDesc(SortDesc(SubSeq(s, 1, Len(s) - 1)), s[Len(s)])

RECURSIVE SetToSeq(_)
SetToSeq(S) ==
  IF S = {} THEN <<>> ELSE LET x == Min(S) IN <<x>> \o SetToSeq(S \ {x})

\* qclient.search(limit=24): at most limit points, by descending similarity.
Search(c, q, limit) ==
  LET pts == SetToSeq(c.points)
      all == SortDesc([i \in 1..Len(pts) |-> <<pts[i], Sim(q, pts[i])>>])
  IN [i \in 1..(IF Len(all) < limit THEN Len(all) ELSE limit) |-> all[i][1]]

\* The result built for one ranked (hit, score) pair.
RankedDoc(p, score) ==
  [text |-> Get(Payload(p), "text", <<>>),
   filename |-> Get(Payload(p), "filename", ""),
   page_start |-> Get(Payload(p), "page_start", 0),
   page_end |-> Get(Payload(p), "page_end", 0),
   chunk_id |-> Get(Payload(p), "chunk_id", p),
   score |-> score]

RerankMut(q, hits) ==
  LET ranked == SortDesc([i \in 1..Len(hits) |-> <<hits[i], RerankScore(q, hits[i])>>])
      top == SubSeq(ranked, 1, IF Len(ranked) < Keep + 1 THEN Len(ranked) ELSE Keep + 1)
  IN [i \in 1..Len(top) |-> RankedDoc(top[i][1], top[i][2])]

\* Lines 25-44: the hits are scored, sorted by descending score and cut to 4.
Rerank(q, hits) ==
  IF hits = <<>> THEN <<>>
  ELSE LET ranked == SortDesc([i \in 1..Len(hits) |->
                                 <<hits[i], RerankScore(q, hits[i])>>])
           top == SubSeq(ranked, 1, IF Len(ranked) < Keep THEN Len(ranked) ELSE Keep)
       IN [i \in 1..Len(top) |-> RankedDoc(top[i][1], top[i][2])]

----------------------------------------------------------------------------
(* answer_question (backend/llm.py) *)

DontKnowMsg == <<"I don't know based on the provided context.">>
FallbackPrefix == <<"Based on the available information: ">>
Ellipsis == <<".", ".", ".">>

SnippetMin == 100
SnippetMax == 300

Citation(d) ==
  [filename |-> Get(d, "filename", ""),
   page_start |-> Get(d, "page_start", 0),
   page_end |-> Get(d, "page_end", 0),
   chunk_id |-> Get(d, "chunk_id", "")]

FormatCitationsMut(docs) == [i \in 1..(Len(docs) - 1) |-> Citation(docs[i])]

\* _format_citations: one Citation per doc, in order.
FormatCitations(docs) == [i \in 1..Len(docs) |-> Citation(docs[i])]

MainAnswerMut(text) == Split(text)[1] \o <<".">>

\* Lines 58-72: the stand-in answer derived from the top-ranked chunk's text.
MainAnswer(text) ==
  IF Len(text) > SnippetMin
  THEN LET sentences == Split(text)
       IN IF Len(sentences) > 1
          THEN sentences[1] \o <<".">>
                 \o (IF Len(sentences) > 2 THEN <<" ">> \o sentences[2] \o <<".">>
                     ELSE <<>>)
          ELSE IF Len(text) > SnippetMax THEN Take(text, SnippetMax) \o Ellipsis
               ELSE text
  ELSE text

\* What the chat completion gives: it raises, or returns a message content.
LLMReplies ==
  {[raises |-> TRUE, content |-> <<>>]} \cup
  {[raises |-> FALSE, content |-> c] :
     c \in {<<>>, <<" ", "o", "k", "\n">>, <<"n", "o">>}}

AnswerQuestionMut(docs, key, llm) ==
  IF key
  THEN IF llm.raises
       THEN [raised |-> TRUE, composed |-> TRUE, llmCalled |-> TRUE, path |-> "llm",
             text |-> <<>>, citations |-> <<>>]
       ELSE [raised |-> FALSE, composed |-> TRUE, llmCalled |-> TRUE, path |-> "llm",
             text |-> Strip(llm.content), citations |-> FormatCitations(docs)]
  ELSE IF docs = <<>>
  THEN [raised |-> FALSE, composed |-> FALSE, llmCalled |-> FALSE, path |-> "empty",
        text |-> DontKnowMsg, citations |-> <<>>]
  ELSE [raised |-> FALSE, composed |-> TRUE, llmCalled |-> FALSE, path |-> "stub",
        text |-> FallbackPrefix \o MainAnswer(docs[1].text),
        citations |-> FormatCitations(docs)]

\* answer_question(question, docs) with OPENAI_API_KEY set or not and the
\* completion's reply: whether it raised, whether the context was composed
\* and the model called, and the Answer returned.
AnswerQuestion(docs, key, llm) ==
  IF docs = <<>>
  THEN [raised |-> FALSE, composed |-> FALSE, llmCalled |-> FALSE, path |-> "empty",
        text |-> DontKnowMsg, citations |-> <<>>]
  ELSE IF key
  THEN IF llm.raises
       THEN [raised |-> TRUE, composed |-> TRUE, llmCalled |-> TRUE, path |-> "llm",
             text |-> <<>>, citations |-> <<>>]
       ELSE [raised |-> FALSE, composed |-> TRUE, llmCalled |-> TRUE, path |-> "llm",
             text |-> Strip(llm.content), citations |-> FormatCitations(docs)]
  ELSE [raised |-> FALSE, composed |-> TRUE, llmCalled |-> FALSE, path |-> "stub",
        text |-> FallbackPrefix \o MainAnswer(docs[1].text),
        citations |-> FormatCitations(docs)]

----------------------------------------------------------------------------
(* The ask endpoint of backend/app.py *)

MaxPoints == 26
NQuestions == 3

Questions == 1..NQuestions

IdleAsk ==
  [pc |-> "idle", entry |-> "none", question |-> 0, dim |-> 0, qdim |-> 0,
   hits |-> <<>>,
   docs |-> <<>>, retrieved |-> FALSE, answered |-> FALSE, keyAtAnswer |-> FALSE,
   composed |-> FALSE, llmCalled |-> FALSE,
   path |-> "none", error |-> FALSE, text |-> <<>>, citations |-> <<>>]

\* emb = get_embedding_backend()
AskStart(q) ==
  /\ ask.pc = "idle"
  /\ ask' = [IdleAsk EXCEPT !.pc = "retrieve", !.entry = "basic", !.question = q,
                            !.dim = BackendDim(apiKey)]
  /\ UNCHANGED <<apiKey, coll, req, djIndex, sess, batch, fn, documents, up>>

\* qclient.search raises when there is no such collection or the query
\* vector has another size than the collection's vectors.
SearchAccepted(c, dim) == c.exists /\ c.size = dim

\* docs = retrieve(...): the question is embedded (the remote back end may
\* raise), the collection searched with the query vector (of qdim
\* components) and the hits reranked. An exception leaves the handler as an
\* HTTP 500.
AskRetrieve(embedOk) ==
  /\ ask.pc = "retrieve"
  /\ embedOk \/ ask.dim = OpenAIDim
  /\ IF ~embedOk
     THEN ask' = [ask EXCEPT !.pc = "done", !.error = TRUE]
     ELSE IF ~SearchAccepted(coll, ask.dim)
     THEN ask' = [ask EXCEPT !.pc = "done", !.error = TRUE, !.qdim = ask.dim]
     ELSE LET hits == Search(coll, ask.question, CoarseLimit)
          IN ask' = [ask EXCEPT !.pc = "answer", !.retrieved = TRUE, !.hits = hits,
                                !.qdim = ask.dim,
                                !.docs = Rerank(ask.question, hits)]
  /\ UNCHANGED <<apiKey, coll, req, djIndex, sess, batch, fn, documents, up>>

\* answer = answer_question(payload.question, docs); return answer
AskAnswer(llm) ==
  /\ ask.pc = "answer"
  /\ LET a == AnswerQuestion(ask.docs, apiKey, llm)
     IN ask' = [ask EXCEPT !.pc = "done", !.answered = TRUE, !.keyAtAnswer = apiKey,
                           !.composed = a.composed, !.llmCalled = a.llmCalled,
                           !.path = a.path, !.error = a.raised,
                           !.text = a.text, !.citations = a.citations]
  /\ UNCHANGED <<apiKey, coll, req, djIndex, sess, batch, fn, documents, up>>

----------------------------------------------------------------------------
(* ImprovedRAGService.query (backend-django/api/rag_service.py) *)

DjTopK == 5

NoDocumentsMsg ==
  <<"No documents have been indexed yet. Please upload some documents first.">>
SorryMsg == <<"Sorry, I encountered an error: ">>

DjCitation(p, score) ==
  [filename |-> Get(Payload(p), "filename", "unknown"),
   page_start |-> Get(Payload(p), "page_label", 1),
   page_end |-> Get(Payload(p), "page_label", 1),
   chunk_id |-> p,
   score |-> score]

\* query(question): without an index the fixed message; otherwise the query
\* engine's response (its text and its source nodes), or, when the engine
\* raises, the error text as the answer with no citations.
DjQuery(q, llm) ==
  /\ ask.pc = "idle"
  /\ IF ~djIndex
     THEN ask' = [IdleAsk EXCEPT !.pc = "done", !.entry = "django", !.question = q,
                                 !.path = "noindex", !.text = NoDocumentsMsg]
     ELSE IF llm.raises \/ ~SearchAccepted(coll, MiniLMDim)
     THEN ask' = [IdleAsk EXCEPT !.pc = "done", !.entry = "django", !.question = q,
                                 !.path = "except", !.text = SorryMsg]
     ELSE LET nodes == Search(coll, q, DjTopK)
          IN ask' = [IdleAsk EXCEPT
                       !.pc = "done", !.entry = "django", !.question = q,
                       !.path = "engine", !.hits = nodes, !.text = llm.content,
                       !.citations = [i \in 1..Len(nodes) |->
                                        DjCitation(nodes[i], Sim(q, nodes[i]))]]
  /\ UNCHANGED <<apiKey, coll, req, djIndex, sess, batch, fn, documents, up>>

----------------------------------------------------------------------------
(* Conversation history: the messages of a session (backend/database.py,   *)
(* backend-django/api/models.py) and the ask paths that read them          *)
(* (backend/app_enhanced.py ask and ask_stream, backend-django/api/views.py *)
(* ask_question with ImprovedRAGService.query).                            *)

MaxMsgs == 102

GetMessagesLimit == 100
HistoryWindow == 6
DjHistoryWindow == 6

\* str.upper() of a role
Upper(role) ==
  CASE role = "user" -> "USER"
    [] role = "assistant" -> "ASSISTANT"
    [] OTHER -> role

\* The stored message number i of a session whose turns all completed.
StoredMessage(i) ==
  [role |-> IF i % 2 = 1 THEN "user" ELSE "assistant", content |-> <<ToString(i)>>]

\* add_message / Message.objects.create: the messages in creation order.
AddMessage(msgs, role, content) == Append(msgs, [role |-> role, content |-> content])

\* get_messages(session_id, limit): ORDER BY created_at ASC LIMIT limit.
GetMessages(msgs, limit) == Take(msgs, limit)

\* s[-n:]
LastN(s, n) == IF n = 0 THEN s ELSE SubSeq(s, Max(1, Len(s) - n + 1), Len(s))

\* The line f"{msg['role'].upper()}: {msg['content']}"
ContextLine(msg) == <<Upper(msg.role), ": ">> \o msg.content

RenderContext(msgs) == Join("\n", [k \in 1..Len(msgs) |-> ContextLine(msgs[k])])

\* get_conversation_context(session_id, max_messages)
GetConversationContext(msgs, max_messages) ==
  RenderContext(LastN(GetMessages(msgs, GetMessagesLimit), max_messages))

\* views.py lines 257-262: order_by('-created_at')[:6], reversed, rendered.
DjConversationContext(msgs) == RenderContext(LastN(msgs, DjHistoryWindow))

ComposeContextMut(docs) ==
  Join("\n\n",
       [k \in 1..(IF Len(docs) > 1 THEN Len(docs) - 1 ELSE Len(docs)) |->
          <<"[", Get(docs[k], "filename", ""), " p",
            ToString(Get(docs[k], "page_start", 0)), "-",
            ToString(Get(docs[k], "page_end", 0)), " | ",
            ToString(Get(docs[k], "chunk_id", "")), "]", "\n">>
            \o Get(docs[k], "text", <<>>)])

\* _compose_context(docs)
ComposeContext(docs) ==
  Join("\n\n",
       [k \in 1..Len(docs) |->
          <<"[", Get(docs[k], "filename", ""), " p",
            ToString(Get(docs[k], "page_start", 0)), "-",
            ToString(Get(docs[k], "page_end", 0)), " | ",
            ToString(Get(docs[k], "chunk_id", "")), "]", "\n">>
            \o Get(docs[k], "text", <<>>)])

HistQuestions == {<<"q1">>, <<"q2">>}

\* What retrieval may give for a query: nothing, or ranked chunks.
HistDocs == {<<>>, <<RankedDoc(1, 5)>>, <<RankedDoc(5, 7), RankedDoc(1, 3)>>}

IdleSess ==
  [msgs |-> <<>>, pc |-> "idle", path |-> "none", use_history |-> FALSE,
   question |-> <<>>, context |-> <<>>, query |-> <<>>, searched |-> FALSE,
   docs |-> <<>>, synthesized |-> FALSE, synthQuestion |-> <<>>,
   genContext |-> <<>>, answer |-> <<>>, error |-> FALSE]

\* The session is found or created and the user's message saved
\* (app_enhanced.py 324-329, views.py 232-252).
HistAskStart(path, q, use_history) ==
  /\ sess.pc = "idle"
  /\ sess' = [sess EXCEPT !.pc = "context", !.path = path, !.question = q,
                          !.use_history = use_history,
                          !.msgs = AddMessage(@, "user", q)]
  /\ UNCHANGED <<Others, batch, fn>>

\* app_enhanced.py 331-340: the context prefix and the retrieval question.
EnhancedContext ==
  /\ sess.pc = "context" /\ sess.path = "enhanced"
  /\ LET context == IF sess.use_history
                    THEN GetConversationContext(sess.msgs, HistoryWindow)
                    ELSE <<>>
         context_prefix ==
           IF context # <<>>
           THEN <<"Previous conversation:\n">> \o context
                  \o <<"\n\nCurrent question: ">>
           ELSE <<>>
     IN sess' = [sess EXCEPT !.pc = "retrieve", !.context = context,
                             !.query = context_prefix \o sess.question]
  /\ UNCHANGED <<Others, batch, fn>>

\* app_enhanced.py 341: retrieve embeds and searches question_with_context;
\* an exception leaves the handler as an HTTP 500.
EnhancedRetrieve(docs, ok) ==
  /\ sess.pc = "retrieve" /\ sess.path = "enhanced"
  /\ IF ok
     THEN sess' = [sess EXCEPT !.pc = "answer", !.searched = TRUE, !.docs = docs]
     ELSE sess' = [sess EXCEPT !.pc = "done", !.error = TRUE]
  /\ UNCHANGED <<Others, batch, fn>>

\* app_enhanced.py 344-348: answer_question(payload.question, docs), whose
\* prompt holds _compose_context(docs) and the question; the answer is saved
\* as the assistant's message.
EnhancedAnswer(llm) ==
  /\ sess.pc = "answer" /\ sess.path = "enhanced"
  /\ LET a == AnswerQuestion(sess.docs, apiKey, llm)
     IN IF a.raised
        THEN sess' = [sess EXCEPT !.pc = "done", !.error = TRUE,
                                  !.synthesized = TRUE,
                                  !.synthQuestion = sess.question,
                                  !.genContext = ComposeContext(sess.docs)]
        ELSE sess' = [sess EXCEPT
                        !.pc = "done", !.synthesized = a.composed,
                        !.synthQuestion = sess.question,
                        !.genContext = IF a.composed THEN ComposeContext(sess.docs)
                                       ELSE <<>>,
                        !.answer = a.text,
                        !.msgs = AddMessage(@, "assistant", a.text)]
  /\ UNCHANGED <<Others, batch, fn>>

\* views.py 254-262: the last six messages, oldest first.
DjContext ==
  /\ sess.pc = "context" /\ sess.path = "django"
  /\ sess' = [sess EXCEPT !.pc = "answer",
                          !.context = IF sess.use_history
                                      THEN DjConversationContext(sess.msgs)
                                      ELSE <<>>]
  /\ UNCHANGED <<Others, batch, fn>>

\* views.py 266-274 with rag_service.py 215-271: query(question,
\* session_context) hands one string, full_query, to the query engine, which
\* retrieves with it and synthesizes the response for it from the retrieved
\* nodes; the answer is saved as the assistant's message.
DjAnswer(docs, llm) ==
  /\ sess.pc = "answer" /\ sess.path = "django"
  /\ LET full_query ==
           IF sess.context # <<>>
           THEN <<"Context: ">> \o sess.context \o <<"\n\nQuestion: ">>
                  \o sess.question
           ELSE sess.question
         answer ==
           IF ~djIndex THEN NoDocumentsMsg
           ELSE IF llm.raises THEN SorryMsg
           ELSE llm.content
     IN sess' = [sess EXCEPT
                   !.pc = "done",
                   !.query = IF djIndex THEN full_query ELSE <<>>,
                   !.searched = djIndex,
                   !.docs = IF djIndex /\ ~llm.raises THEN docs ELSE <<>>,
                   !.synthesized = djIndex,
                   !.synthQuestion = IF djIndex THEN full_query ELSE <<>>,
                   !.genContext =
                     IF djIndex
                     THEN Join("\n\n", [k \in 1..Len(docs) |-> docs[k].text])
                     ELSE <<>>,
                   !.answer = answer,
                   !.msgs = AddMessage(@, "assistant", answer)]
  /\ UNCHANGED <<Others, batch, fn>>

----------------------------------------------------------------------------
(* The documents table (backend/database.py) and the document endpoints of *)
(* backend/app_enhanced.py: ingest, which records each upload and calls    *)
(* ingest_files, and delete_document.                                      *)

MaxDocPoints == 6

IdleUp ==
  [pc |-> "idle", files |-> <<>>, doc_ids |-> <<>>, response |-> [kind |-> "none"],
   before |-> {}, deleted |-> {}, askpc |-> "none", last |-> [kind |-> "none"]]

\* db.add_document: a row with status 'processing'
AddDocument(table, doc_id, filename) ==
  table \cup {[doc_id |-> doc_id, filename |-> filename, status |-> "processing",
               chunks_count |-> 0]}

\* db.update_document_status(doc_id, status, chunks_count)
UpdateDocumentStatus(table, doc_id, status, chunks_count) ==
  {IF d.doc_id = doc_id
   THEN [d EXCEPT !.status = status, !.chunks_count = chunks_count]
   ELSE d : d \in table}

\* db.delete_document: DELETE FROM documents WHERE doc_id = ?
DbDeleteDocument(table, doc_id) == {d \in table : d.doc_id # doc_id}

\* A record left by an earlier ingest.
OldDocument ==
  [doc_id |-> 0, filename |-> "old.txt", status |-> "completed", chunks_count |-> 1]

\* app_enhanced.py 226-248 for files j..: each file is written under a fresh
\* temporary name and recorded under a fresh doc_id, two uuid4 values per
\* file.
RECURSIVE SaveFiles(_, _, _, _)
SaveFiles(table, files, j, uuid) ==
  IF j > Len(files) THEN [table |-> table, doc_ids |-> <<>>, uuid |-> uuid]
  ELSE LET doc_id == uuid + 1
           rest == SaveFiles(AddDocument(table, doc_id, files[j].filename),
                             files, j + 1, uuid + 2)
       IN [rest EXCEPT !.doc_ids = <<doc_id>> \o @]

\* app_enhanced.py 251-254 from the i-th doc_id on: every record of the
\* request is set to 'completed' with the same share of the chunks.
RECURSIVE CompleteAll(_, _, _, _)
CompleteAll(table, doc_ids, i, chunks_per_doc) ==
  IF i > Len(doc_ids) THEN table
  ELSE CompleteAll(UpdateDocumentStatus(table, doc_ids[i], "completed", chunks_per_doc),
                   doc_ids, i + 1, chunks_per_doc)

\* ingest, lines 226-251: the uploads are saved and recorded, and
\* ingest_files is called on them.
UpSave ==
  /\ up.pc = "save"
  /\ LET saved == SaveFiles(documents, up.files, 1, 1)
     IN /\ documents' = saved.table
        /\ up' = [up EXCEPT !.pc = "process", !.doc_ids = saved.doc_ids]
        /\ batch' = [IdleBatch EXCEPT !.pc = "load", !.files = up.files, !.i = 1,
                                      !.uuid = saved.uuid, !.before = coll.points]
  /\ UNCHANGED <<apiKey, coll, req, ask, djIndex, sess, fn>>

\* ingest, lines 253-266: ingest_files returned; the records are updated and
\* its result is the response.
UpFinish ==
  /\ up.pc = "process" /\ batch.pc = "returned"
  /\ documents' = CompleteAll(documents, up.doc_ids, 1,
                              batch.result.chunks_indexed \div Len(up.doc_ids))
  /\ up' = [up EXCEPT !.pc = "done", !.response = batch.result]
  /\ UNCHANGED <<apiKey, coll, req, ask, djIndex, sess, batch, fn>>

\* ingest, lines 270-272: an exception of ingest_files becomes an HTTP 500;
\* the records are left as they are.
UpFail ==
  /\ up.pc = "process" /\ batch.pc = "raised"
  /\ up' = [up EXCEPT !.pc = "done", !.response = HttpError(500)]
  /\ UNCHANGED <<apiKey, coll, req, ask, djIndex, sess, batch, fn, documents>>

\* The doc_id the documents table holds for the upload whose points carry
\* doc_id d: the two are different uuid4 values.
DbId(d) == d + MaxDocPoints

DeleteDocumentMut(doc_id, ok) ==
  /\ up.pc = "idle"
  /\ IF ok
     THEN /\ documents' = DbDeleteDocument(documents, doc_id)
          /\ coll' = [coll EXCEPT !.points = {p \in @ : DbId(Payload(p).doc_id) # doc_id}]
          /\ up' = [up EXCEPT
                      !.deleted = @ \cup {d.doc_id : d \in {e \in documents : e.doc_id = doc_id}},
                      !.askpc = ask.pc,
                      !.last = [kind |-> "response", status |-> "deleted",
                                doc_id |-> doc_id]]
     ELSE /\ documents' = documents
          /\ coll' = coll
          /\ up' = [up EXCEPT !.last = HttpError(500)]
  /\ UNCHANGED <<apiKey, req, ask, djIndex, sess, batch, fn>>

\* delete_document(doc_id): the record is deleted from the documents table
\* (a database error becomes an HTTP 500); the collection is not touched.
\* askpc notes where the ask stood when the record was deleted.
DeleteDocument(doc_id, ok) ==
  /\ up.pc = "idle"
  /\ IF ok
     THEN /\ documents' = DbDeleteDocument(documents, doc_id)
          /\ up' = [up EXCEPT
                      !.deleted = @ \cup {d.doc_id : d \in {e \in documents : e.doc_id = doc_id}},
                      !.askpc = ask.pc,
                      !.last = [kind |-> "response", status |-> "deleted",
                                doc_id |-> doc_id]]
     ELSE /\ documents' = documents
          /\ up' = [up EXCEPT !.last = HttpError(500)]
  /\ UNCHANGED <<apiKey, coll, req, ask, djIndex, sess, batch, fn>>

----------------------------------------------------------------------------
(* Specification of the ingest endpoints *)

IngestInit ==
  /\ apiKey \in BOOLEAN
  /\ coll = NoCollection
  /\ req = [r \in Req |-> IdleReq]
  /\ ask = IdleAsk
  /\ djIndex = FALSE
  /\ sess = IdleSess
  /\ batch = IdleBatch
  /\ fn = IdleFn
  /\ documents = {}
  /\ up = IdleUp

IngestNext ==
  \/ SetApiKey
  \/ \E r \in Req, fails \in BOOLEAN : BasicLookup(r, fails)
  \/ \E r \in Req, fails \in BOOLEAN : EnhancedLookup(r, fails)
  \/ \E r \in Req : CreateCollection(r)
  \/ \E r \in Req, n \in 1..MaxFiles, k \in 0..MaxChunks, embedOk \in BOOLEAN :
       IngestFiles(r, n, k, embedOk)

SpecIngest == IngestInit /\ [][IngestNext]_vars

----------------------------------------------------------------------------
(* Specification of the ingest endpoints serving one request at a time *)

InFlight == {r \in Req : req[r].pc \notin {"idle", "done"}}

IngestSeqNext ==
  \/ SetApiKey
  \/ \E r \in Req, fails \in BOOLEAN : InFlight = {} /\ BasicLookup(r, fails)
  \/ \E r \in Req, fails \in BOOLEAN : InFlight = {} /\ EnhancedLookup(r, fails)
  \/ \E r \in Req : CreateCollection(r)
  \/ \E r \in Req, n \in 1..MaxFiles, k \in 0..MaxChunks, embedOk \in BOOLEAN :
       IngestFiles(r, n, k, embedOk)

SpecIngestSeq == IngestInit /\ [][IngestSeqNext]_vars

----------------------------------------------------------------------------
(* Specification of the ask endpoint of backend/app.py: a question is      *)
(* asked of a collection that is absent, empty or holds the first n points *)
(* of the corpus.                                                          *)

Collections ==
  {NoCollection} \cup
  {[exists |-> TRUE, size |-> d, points |-> 1..n] :
     d \in {OpenAIDim, MiniLMDim}, n \in 0..MaxPoints}

AskInit ==
  /\ apiKey \in BOOLEAN
  /\ coll \in Collections
  /\ req = [r \in Req |-> IdleReq]
  /\ ask = IdleAsk
  /\ djIndex = FALSE
  /\ sess = IdleSess
  /\ batch = IdleBatch
  /\ fn = IdleFn
  /\ documents = {}
  /\ up = IdleUp

AskNext ==
  \/ SetApiKey
  \/ \E q \in Questions : AskStart(q)
  \/ \E embedOk \in BOOLEAN : AskRetrieve(embedOk)
  \/ \E llm \in LLMReplies : AskAnswer(llm)

SpecAsk == AskInit /\ [][AskNext]_vars

----------------------------------------------------------------------------
(* Specification of all the query paths: the ask endpoint and the Django   *)
(* service, whose index is None until a collection is there to load or     *)
(* the first ingest has built it.                                          *)

QueryInit ==
  /\ apiKey \in BOOLEAN
  /\ coll \in Collections
  /\ req = [r \in Req |-> IdleReq]
  /\ ask = IdleAsk
  /\ djIndex \in BOOLEAN
  /\ djIndex => coll.exists
  /\ sess = IdleSess
  /\ batch = IdleBatch
  /\ fn = IdleFn
  /\ documents = {}
  /\ up = IdleUp

QueryNext ==
  \/ AskNext
  \/ \E q \in Questions, llm \in LLMReplies : DjQuery(q, llm)

SpecQuery == QueryInit /\ [][QueryNext]_vars

----------------------------------------------------------------------------
(* Specification of the asks of one session that already holds n stored    *)
(* messages.                                                               *)

HistInit ==
  /\ apiKey \in BOOLEAN
  /\ coll = NoCollection
  /\ req = [r \in Req |-> IdleReq]
  /\ ask = IdleAsk
  /\ djIndex \in BOOLEAN
  /\ \E n \in 0..MaxMsgs :
       sess = [IdleSess EXCEPT !.msgs = [i \in 1..n |-> StoredMessage(i)]]
  /\ batch = IdleBatch
  /\ fn = IdleFn
  /\ documents = {}
  /\ up = IdleUp

HistNext ==
  \/ \E path \in {"enhanced", "django"}, q \in HistQuestions, h \in BOOLEAN :
       HistAskStart(path, q, h)
  \/ EnhancedContext
  \/ \E docs \in HistDocs, ok \in BOOLEAN : EnhancedRetrieve(docs, ok)
  \/ \E llm \in LLMReplies : EnhancedAnswer(llm)
  \/ DjContext
  \/ \E docs \in HistDocs, llm \in LLMReplies : DjAnswer(docs, llm)

SpecHist == HistInit /\ [][HistNext]_vars

----------------------------------------------------------------------------
(* Specification of calls of normalize_text and _chunk_text *)

TextInit ==
  /\ apiKey = FALSE
  /\ coll = NoCollection
  /\ req = [r \in Req |-> IdleReq]
  /\ ask = IdleAsk
  /\ djIndex = FALSE
  /\ sess = IdleSess
  /\ batch = IdleBatch
  /\ fn \in NormInputs \cup ChunkInputs \cup CountInputs \cup LoadInputs
  /\ documents = {}
  /\ up = IdleUp

TextNext ==
  \/ NormalizeCall
  \/ NormalizeAgain
  \/ \E step \in 1..Max(MaxTarget, MaxWindow) : ChunkCall(step)
  \/ \E step \in 1..Max(MaxTarget, MaxWindow) : WindowsCall(step)
  \/ LoadCall

SpecText == TextInit /\ [][TextNext]_vars

----------------------------------------------------------------------------
(* Specification of one call of ingest_files on a batch of files, for a    *)
(* collection that is empty or already holds a point.                      *)

BatchInit ==
  /\ apiKey \in BOOLEAN
  /\ \E old \in {{}, {OldPoint}} :
       /\ coll = [exists |-> TRUE, size |-> BackendDim(apiKey), points |-> old]
       /\ \E files \in Batches :
            batch = [IdleBatch EXCEPT !.pc = "load", !.files = files, !.i = 1,
                                      !.uuid = 1, !.before = old]
  /\ req = [r \in Req |-> IdleReq]
  /\ ask = IdleAsk
  /\ djIndex = FALSE
  /\ sess = IdleSess
  /\ fn = IdleFn
  /\ documents = {}
  /\ up = IdleUp

BatchNext ==
  \/ \E loadOk \in BOOLEAN : BatchLoad(loadOk)
  \/ \E embedOk \in BOOLEAN : BatchEmbed(embedOk)
  \/ \E upsertOk \in BOOLEAN : BatchUpsert(upsertOk)
  \/ BatchReturn
  \/ BatchAbort

SpecBatch == BatchInit /\ [][BatchNext]_vars

----------------------------------------------------------------------------
(* Specification of one ingest request of app_enhanced.py from the saving  *)
(* of the uploads on, the collection being there with the back end's size. *)

UploadInit ==
  /\ apiKey \in BOOLEAN
  /\ \E old \in BOOLEAN :
       /\ coll = [exists |-> TRUE, size |-> BackendDim(apiKey),
                  points |-> IF old THEN {OldPoint} ELSE {}]
       /\ documents = (IF old THEN {OldDocument} ELSE {})
  /\ \E files \in Batches : up = [IdleUp EXCEPT !.pc = "save", !.files = files]
  /\ req = [r \in Req |-> IdleReq]
  /\ ask = IdleAsk
  /\ djIndex = FALSE
  /\ sess = IdleSess
  /\ batch = IdleBatch
  /\ fn = IdleFn

UploadNext ==
  \/ UpSave
  \/ \E loadOk \in BOOLEAN : BatchLoad(loadOk)
  \/ \E embedOk \in BOOLEAN : BatchEmbed(embedOk)
  \/ \E upsertOk \in BOOLEAN : BatchUpsert(upsertOk)
  \/ BatchReturn
  \/ UpFinish
  \/ UpFail

SpecUpload == UploadInit /\ [][UploadNext]_vars

----------------------------------------------------------------------------
(* Specification of delete_document and a query: the collection holds the  *)
(* points of documents that each have a record.                            *)

DeleteInit ==
  /\ apiKey \in BOOLEAN
  /\ \E d \in {OpenAIDim, MiniLMDim}, n \in 0..MaxDocPoints :
       /\ coll = [exists |-> TRUE, size |-> d, points |-> 1..n]
       /\ documents =
            {[doc_id |-> DbId(Payload(p).doc_id), filename |-> Payload(p).filename,
              status |-> "completed",
              chunks_count |-> Cardinality({q \in 1..n :
                                 Payload(q).doc_id = Payload(p).doc_id})] :
               p \in {q \in 1..n : q % 2 = 1}}
       /\ up = [IdleUp EXCEPT !.before = 1..n]
  /\ req = [r \in Req |-> IdleReq]
  /\ ask = IdleAsk
  /\ djIndex = FALSE
  /\ sess = IdleSess
  /\ batch = IdleBatch
  /\ fn = IdleFn

DeleteNext ==
  \/ \E p \in 1..MaxDocPoints, ok \in BOOLEAN :
       DeleteDocument(DbId(Payload(p).doc_id), ok)
  \/ \E q \in Questions : AskStart(q)
  \/ \E embedOk \in BOOLEAN : AskRetrieve(embedOk)
  \/ \E llm \in LLMReplies : AskAnswer(llm)

SpecDelete == DeleteInit /\ [][DeleteNext]_vars

----------------------------------------------------------------------------
(* Claims about the ingest endpoints, checked under SpecIngest *)

\* C1: in backend/app.py's ingest, a request whose lookup finds the existing
\* collection with a vector size other than the back end's dimension ends
\* with the error response (doc_ids empty, chunks_indexed 0, files_processed
\* 0, an error detail) and neither recreates the collection nor upserts.
C1_BasicMismatchRefused ==
  \A r \in Req :
    (req[r].app = "basic" /\ req[r].found = "mismatch") =>
      /\ req[r].pc = "done"
      /\ req[r].result.kind = "response"
      /\ req[r].result.doc_ids = <<>>
      /\ req[r].result.chunks_indexed = 0
      /\ req[r].result.files_processed = 0
      /\ req[r].result.details = "error"
      /\ ~req[r].created
      /\ req[r].upserted = {}

\* A basic request was refused for a mismatch while the collection holds
\* points of an earlier request, which are all still there.
C1_Witness ==
  \E r \in Req, e \in Req :
    /\ req[r].app = "basic" /\ req[r].found = "mismatch" /\ req[r].pc = "done"
    /\ e # r /\ req[e].pc = "done" /\ req[e].upserted # {}
    /\ req[e].upserted \subseteq coll.points
    /\ coll.size # req[r].dim

\* C2: in backend/app_enhanced.py's ingest, a request whose lookup finds a
\* mismatch fails with the mismatch error (HTTP 400), never recreates the
\* collection and upserts nothing.
C2_EnhancedMismatchFatal ==
  \A r \in Req :
    (req[r].app = "enhanced" /\ req[r].found = "mismatch") =>
      /\ req[r].pc = "done"
      /\ req[r].result = HttpError(400)
      /\ ~req[r].created
      /\ req[r].upserted = {}

\* C3: every point upserted by an ingest request that returned its response
\* is still in the collection, whatever ingest requests ran since.
C3_PointsNeverRemoved ==
  \A r \in Req :
    (req[r].pc = "done" /\ req[r].result.kind = "response") =>
      req[r].upserted \subseteq coll.points

\* C4: when two ingest requests both found the collection absent and both
\* created it, then once both have returned their responses the collection
\* holds the points of both.
C4_ConcurrentFirstUse ==
  \A r1 \in Req, r2 \in Req :
    ( /\ r1 # r2
      /\ req[r1].found = "absent" /\ req[r2].found = "absent"
      /\ req[r1].created /\ req[r2].created
      /\ req[r1].pc = "done" /\ req[r2].pc = "done"
      /\ req[r1].result.kind = "response" /\ req[r2].result.kind = "response" ) =>
      (req[r1].upserted \cup req[r2].upserted) \subseteq coll.points

----------------------------------------------------------------------------
(* Claims about the query paths, checked under SpecAsk and SpecQuery *)

\* An Answer was returned to the caller.
Returned == ask.pc = "done" /\ ~ask.error

NothingIndexed == ~coll.exists \/ coll.points = {}

\* C5: for a non-empty list of ranked results, the Answer of answer_question
\* carries exactly one citation per ranked result, in the same order, each
\* with that result's filename, page_start, page_end and chunk_id, on the
\* model path and on the fallback path alike.
C5_CitationsFollowRanked ==
  (ask.answered /\ Returned /\ ask.docs # <<>>) =>
    /\ Len(ask.citations) = Len(ask.docs)
    /\ \A i \in 1..Len(ask.docs) :
         ask.citations[i] =
           [filename |-> ask.docs[i].filename,
            page_start |-> ask.docs[i].page_start,
            page_end |-> ask.docs[i].page_end,
            chunk_id |-> ask.docs[i].chunk_id]

\* The model path answered over four ranked results of different chunks.
C5_Witness ==
  /\ ask.answered /\ Returned /\ ask.path = "llm"
  /\ Len(ask.docs) = Keep
  /\ ask.docs[1].chunk_id # ask.docs[2].chunk_id
  /\ Len(ask.citations) = Keep

\* C6: an Answer returned by answer_question or by the Django service's
\* query has an empty citation list only when its text is the don't-know or
\* the no-documents message.
C6_NoCitationsOnlyWhenUnknown ==
  (Returned /\ ask.citations = <<>>) => ask.text \in {DontKnowMsg, NoDocumentsMsg}

\* C7: with empty ranked results answer_question returns the don't-know text
\* with no citations, composes no context and calls no model, whether or not
\* a model is configured.
C7_EmptyResultsDontKnow ==
  (ask.answered /\ ask.docs = <<>>) =>
    /\ ~ask.error
    /\ ask.text = DontKnowMsg
    /\ ask.citations = <<>>
    /\ ~ask.composed
    /\ ~ask.llmCalled

\* The search of an existing, empty collection gave no hit and the question
\* was answered while a model was configured.
C7_Witness ==
  /\ ask.answered /\ ask.docs = <<>> /\ ask.hits = <<>>
  /\ ask.keyAtAnswer /\ coll.exists /\ ask.pc = "done"

\* C8: in every query entry point, a query made when nothing has been indexed
\* returns the fixed no-documents answer with no citations, not an error.
C8_NoDocumentsAnswer ==
  (ask.pc = "done" /\ NothingIndexed) =>
    /\ ~ask.error
    /\ ask.text = NoDocumentsMsg
    /\ ask.citations = <<>>

\* The text after the fixed prefix of a stub answer.
StubBody == SubSeq(ask.text, 2, Len(ask.text))

IsLeadingPart(b, t) == \E k \in 0..Len(t) : b = Take(t, k)

StubCase == ask.answered /\ ~ask.keyAtAnswer /\ ask.docs # <<>>

\* C9 as stated: with no model configured and non-empty ranked results,
\* answer_question does not fail and returns the fixed prefix followed by
\* the top chunk's whole text when it has at most 100 characters, otherwise
\* by a leading part of it, with one citation per ranked result.
C9_StubLeadingPart ==
  StubCase =>
    /\ ~ask.error /\ ~ask.llmCalled
    /\ Len(ask.text) > 0
    /\ SubSeq(ask.text, 1, 1) = FallbackPrefix
    /\ Len(ask.docs[1].text) <= SnippetMin => StubBody = ask.docs[1].text
    /\ Len(ask.docs[1].text) > SnippetMin => IsLeadingPart(StubBody, ask.docs[1].text)
    /\ Len(ask.citations) = Len(ask.docs)

\* C9 as amended: the same, but a top chunk of more than 300 characters with
\* no ". " gives its first 300 characters followed by "...".
C9_StubLeadingPartOrSnippet ==
  StubCase =>
    LET top == ask.docs[1].text IN
    /\ ~ask.error /\ ~ask.llmCalled
    /\ Len(ask.text) > 0
    /\ SubSeq(ask.text, 1, 1) = FallbackPrefix
    /\ Len(top) <= SnippetMin => StubBody = top
    /\ (Len(top) > SnippetMin /\ ~(Len(top) > SnippetMax /\ SepAt(top) = {}))
         => IsLeadingPart(StubBody, top)
    /\ (Len(top) > SnippetMax /\ SepAt(top) = {})
         => StubBody = Take(top, SnippetMax) \o Ellipsis
    /\ Len(ask.citations) = Len(ask.docs)

\* The stub answered from a top chunk of more than 300 characters that holds
\* no sentence break.
C9_Witness ==
  /\ StubCase /\ ask.pc = "done"
  /\ Len(ask.docs[1].text) > SnippetMax
  /\ SepAt(ask.docs[1].text) = {}
  /\ Len(ask.docs) > 1

\* C10: retrieve returns min(4, number of hits) results, each a distinct hit
\* of the search (at most 24 hits) with that hit's chunk fields and rerank
\* score, in an order of non-increasing rerank score.
C10_RetrieveTopRanked ==
  ask.retrieved =>
    /\ Len(ask.hits) <= CoarseLimit
    /\ Len(ask.docs) = (IF Len(ask.hits) < 4 THEN Len(ask.hits) ELSE 4)
    /\ \A i \in 1..Len(ask.docs) :
         \E j \in 1..Len(ask.hits) :
           LET p == ask.hits[j] IN
           /\ p \in coll.points
           /\ ask.docs[i].text = Payload(p).text
           /\ ask.docs[i].filename = Payload(p).filename
           /\ ask.docs[i].page_start = Payload(p).page_start
           /\ ask.docs[i].page_end = Payload(p).page_end
           /\ ask.docs[i].chunk_id = Payload(p).chunk_id
           /\ ask.docs[i].score = RerankScore(ask.question, p)
    /\ \A i \in 1..Len(ask.docs), k \in 1..Len(ask.docs) :
         i # k => ask.docs[i].chunk_id # ask.docs[k].chunk_id
    /\ \A i \in 1..(Len(ask.docs) - 1) : ask.docs[i].score >= ask.docs[i + 1].score

\* The collection holds more points than the search returns, the search
\* returned 24 and four of unequal scores were kept.
C10_Witness ==
  /\ ask.retrieved
  /\ Cardinality(coll.points) > CoarseLimit
  /\ Len(ask.hits) = CoarseLimit
  /\ Len(ask.docs) = 4
  /\ ask.docs[1].score > ask.docs[4].score

----------------------------------------------------------------------------
(* Claims about the conversation history, checked under SpecHist *)

\* t holds the text c somewhere.
Contains(t, c) ==
  \E i \in 1..(Len(t) - Len(c) + 1) : SubSeq(t, i, i + Len(c) - 1) = c

EndsWith(t, c) ==
  Len(c) <= Len(t) /\ SubSeq(t, Len(t) - Len(c) + 1, Len(t)) = c

\* An ask with history enabled, some history to use, that searched and
\* then synthesized an answer.
HistoryUsed ==
  /\ sess.pc = "done" /\ sess.use_history /\ sess.context # <<>>
  /\ sess.searched /\ sess.synthesized

\* C11: in every ask path with history enabled, the history is prepended to
\* the question that is embedded and searched, the question handed to answer
\* synthesis is the user's original question, and the generation context
\* holds the retrieved chunks and not the history.
C11_HistoryOnlyInRetrieval ==
  HistoryUsed =>
    /\ Contains(sess.query, sess.context)
    /\ EndsWith(sess.query, sess.question)
    /\ sess.synthQuestion = sess.question
    /\ ~Contains(sess.genContext, sess.context)
    /\ \A k \in 1..Len(sess.docs) : Contains(sess.genContext, sess.docs[k].text)

\* The rendering the window of the n most recently created messages has:
\* one 'ROLE: content' line per message, oldest first.
RecentWindow(msgs, n) ==
  LET m == IF n < Len(msgs) THEN n ELSE Len(msgs)
  IN Join("\n", [k \in 1..m |->
                   <<Upper(msgs[Len(msgs) - m + k].role), ": ">>
                     \o msgs[Len(msgs) - m + k].content])

\* C12: get_conversation_context(session, max_messages = N) renders exactly
\* the N most recently created messages of the session (all of them when
\* there are fewer), oldest first, whatever the length of the session; here
\* for the call of ask, N = 6, right after it returned.
C12_ContextIsMostRecent ==
  (sess.path = "enhanced" /\ sess.pc = "retrieve" /\ sess.use_history) =>
    sess.context = RecentWindow(sess.msgs, HistoryWindow)

----------------------------------------------------------------------------
(* Claims about _chunk_text and normalize_text, checked under SpecText *)

\* C13: for n > 0 tokens, every target size and every overlap ratio, the
\* windows of _chunk_text cover every token index of [0, n), start in
\* increasing order, and each chunk holds the tokens of its window.
C13_ChunksCoverTokens ==
  (fn.op \in {"chunk", "windows"} /\ fn.n > 0) =>
    /\ \A t \in 0..(fn.n - 1) :
         \E k \in 1..Len(fn.windows) :
           fn.windows[k].start <= t /\ t < fn.windows[k].end
    /\ \A k \in 1..(Len(fn.windows) - 1) :
         fn.windows[k].start < fn.windows[k + 1].start
    /\ \A k \in 1..Len(fn.windows) :
         0 <= fn.windows[k].start /\ fn.windows[k].end <= fn.n
    /\ fn.op = "chunk" =>
         /\ Len(fn.chunks) = Len(fn.windows)
         /\ \A k \in 1..Len(fn.chunks) :
              Tokens(fn.chunks[k])
                = SubSeq(Tokens(fn.text), fn.windows[k].start + 1, fn.windows[k].end)

\* More tokens than the target size, cut into three or more overlapping
\* windows.
C13_Witness ==
  /\ fn.op = "windows" /\ fn.n > fn.target
  /\ Len(fn.windows) >= 3
  /\ fn.windows[2].start < fn.windows[1].end
  /\ fn.step > 1

\* C14: _chunk_text returns no chunk for a text without tokens, and for a
\* text with a token at least one chunk, every chunk a non-empty string, for
\* every target size.
C14_ChunksNonEmpty ==
  fn.op = "chunk" =>
    /\ Tokens(fn.text) = <<>> => fn.chunks = <<>>
    /\ Tokens(fn.text) # <<>> =>
         /\ Len(fn.chunks) >= 1
         /\ \A k \in 1..Len(fn.chunks) : fn.chunks[k] # <<>>

\* A text with white space around its tokens, cut into several chunks, the
\* last of one token.
C14_Witness ==
  /\ fn.op = "chunk"
  /\ Len(fn.chunks) >= 2
  /\ IsSpace(fn.text[1])
  /\ Len(Tokens(fn.chunks[Len(fn.chunks)])) = 1

\* C15: normalize_text returns for every string; its result holds no U+00A0,
\* no tab or newline, no two adjacent white space characters and no white
\* space at either end; normalizing the result again gives the result.
C15_NormalizeIdempotent ==
  /\ (fn.kind = "normalize" /\ fn.op = "none") => ENABLED NormalizeCall
  /\ fn.op \in {"normalize", "normalized"} =>
       /\ \A i \in 1..Len(fn.norm) : fn.norm[i] \notin {NBSP, "\t", "\n"}
       /\ \A i \in 1..(Len(fn.norm) - 1) :
            ~(IsSpace(fn.norm[i]) /\ IsSpace(fn.norm[i + 1]))
       /\ fn.norm # <<>> => ~IsSpace(fn.norm[1]) /\ ~IsSpace(fn.norm[Len(fn.norm)])
  /\ fn.op = "normalized" => fn.again = fn.norm

\* A text with U+00A0, a tab and white space at both ends, normalized
\* twice.
C15_Witness ==
  /\ fn.op = "normalized"
  /\ \E i \in 1..Len(fn.text) : fn.text[i] = NBSP
  /\ \E i \in 1..Len(fn.text) : fn.text[i] = "\t"
  /\ IsSpace(fn.text[1]) /\ IsSpace(fn.text[Len(fn.text)])
  /\ Len(fn.norm) = 3

----------------------------------------------------------------------------
(* Claims about ingest_files, checked under SpecBatch *)

\* The points built so far for the document doc_id, in the order built.
PointsOfDoc(doc_id) ==
  LET OfDoc(p) == p.payload.doc_id = doc_id IN SelectSeq(batch.points, OfDoc)

\* C16: every point built by ingest_files has page_start <= page_end, a
\* non-empty normalized text and chunk_id = (doc_id, k), k numbering the
\* document's chunks 0, 1, 2, ... without gaps across its pages; no two
\* points of the batch share a chunk_id.
C16_PointsWellFormed ==
  /\ \A k \in 1..Len(batch.points) :
       LET p == batch.points[k].payload IN
       /\ p.page_start <= p.page_end
       /\ p.text # <<>>
       /\ NormalizeText(p.text) = p.text
       /\ \E d \in 1..Len(batch.doc_ids) : p.doc_id = batch.doc_ids[d]
  /\ \A d \in 1..Len(batch.doc_ids) :
       LET pts == PointsOfDoc(batch.doc_ids[d]) IN
       \A k \in 1..Len(pts) : pts[k].payload.chunk_id = <<batch.doc_ids[d], k - 1>>
  /\ \A j \in 1..Len(batch.points), k \in 1..Len(batch.points) :
       j # k => batch.points[j].payload.chunk_id # batch.points[k].payload.chunk_id

\* Two documents with points, one of them with chunks on two different
\* pages.
C16_Witness ==
  /\ batch.pc = "embed"
  /\ Len(batch.doc_ids) = 2
  /\ \A d \in 1..2 : PointsOfDoc(batch.doc_ids[d]) # <<>>
  /\ \E j \in 1..Len(batch.points), k \in 1..Len(batch.points) :
       /\ batch.points[j].payload.doc_id = batch.points[k].payload.doc_id
       /\ batch.points[j].payload.page_start < batch.points[k].payload.page_start

\* The number of chunks of one page: those of its normalized text.
ChunksOfPage(page) ==
  Len(ChunkWindows(Len(Tokens(NormalizeText(page))), TargetTokens, DefaultStep))

RECURSIVE SumPages(_, _)
SumPages(pages, j) ==
  IF j > Len(pages) THEN 0 ELSE ChunksOfPage(pages[j]) + SumPages(pages, j + 1)

RECURSIVE SumFiles(_, _)
SumFiles(files, i) ==
  IF i > Len(files) THEN 0 ELSE SumPages(files[i].pages, 1) + SumFiles(files, i + 1)

\* C17: the result of ingest_files holds one fresh doc id per input file in
\* input order (also for files without chunks), files_processed is the
\* number of input files, and chunks_indexed is the number of points
\* upserted, the sum over files and pages of the chunks of the normalized
\* page text: 1 for a file whose only text has between 1 and 400 tokens.
C17_ResultAccountsForBatch ==
  batch.pc = "returned" =>
    LET res == batch.result IN
    /\ Len(res.doc_ids) = Len(batch.files)
    /\ \A j \in 1..Len(res.doc_ids), k \in 1..Len(res.doc_ids) :
         j # k => res.doc_ids[j] # res.doc_ids[k]
    /\ \A j \in 1..Len(res.doc_ids) :
         /\ \A p \in batch.before : p.payload.doc_id # res.doc_ids[j]
         /\ \A p \in batch.written :
              p.payload.doc_id = res.doc_ids[j]
                => p.payload.filename = batch.files[j].filename
         /\ Cardinality({p \in batch.written : p.payload.doc_id = res.doc_ids[j]})
              = SumPages(batch.files[j].pages, 1)
    /\ res.files_processed = Len(batch.files)
    /\ res.chunks_indexed = Cardinality(batch.written)
    /\ res.chunks_indexed = Cardinality(coll.points \ batch.before)
    /\ res.chunks_indexed = SumFiles(batch.files, 1)
    /\ (Len(batch.files) = 1 /\ Len(batch.files[1].pages) = 1
          /\ Len(Tokens(batch.files[1].pages[1])) \in 1..TargetTokens)
         => res.chunks_indexed = 1

\* Two files, the first without any chunk, the second of more than 400
\* tokens.
C17_Witness ==
  /\ batch.pc = "returned"
  /\ Len(batch.files) = 2
  /\ SumPages(batch.files[1].pages, 1) = 0
  /\ Len(Tokens(batch.files[2].pages[1])) > TargetTokens
  /\ batch.result.chunks_indexed = 2

\* C18: when loading one file of a batch fails, the file is skipped and the
\* remaining files are still chunked, embedded and indexed: the call does
\* not end with the exception of the load.
C18_LoadFailureIsolated ==
  (batch.cause = "load" /\ batch.i < Len(batch.files)) => batch.pc # "raised"

\* C20: ingest_files writes to the index at most once, in one upsert of all
\* the points issued after every file was loaded and every chunk embedded;
\* when loading or embedding fails, or the call is abandoned before, the
\* collection's points are as they were.
C20_SingleUpsertAfterEmbedding ==
  /\ batch.writes <= 1
  /\ coll.points = batch.before \cup batch.written
  /\ batch.written # {} =>
       /\ batch.i > Len(batch.files)
       /\ batch.written = Range(batch.points)
       /\ \A p \in batch.written : p.vector = "embedded"
       /\ batch.pc \in {"return", "returned"}
  /\ (batch.pc = "aborted" \/ (batch.pc = "raised" /\ batch.cause \in {"load", "embed"}))
       => coll.points = batch.before /\ batch.writes = 0

\* A call on two files that wrote its points in its one upsert, next to a
\* point that was there before.
C20_Witness ==
  /\ batch.pc = "returned"
  /\ batch.writes = 1
  /\ Len(batch.files) = 2
  /\ Cardinality(batch.written) >= 3
  /\ batch.before # {}

----------------------------------------------------------------------------
(* A further claim about the ingest endpoints, checked under SpecIngest *)

\* C19: every ingest request ends with a result object (doc_ids,
\* chunks_indexed, files_processed), never with a bare failure, also when
\* loading, embedding or the upsert fails.
C19_AlwaysResultObject ==
  \A r \in Req : req[r].pc = "done" => req[r].result.kind = "response"

----------------------------------------------------------------------------
(* Further claims about the ask endpoint, checked under SpecAsk *)

\* C21: the query vector passed to search has the dimension of the
\* collection it is searched in, whatever OPENAI_API_KEY was when the
\* collection was created and is when the question is asked.
C21_QueryDimMatchesCollection ==
  (ask.qdim # 0 /\ coll.exists) => ask.qdim = coll.size

----------------------------------------------------------------------------
(* Further claims about _chunk_text, checked under SpecText *)

\* The step of the written algorithm: max(1, floor(target * (1 - overlap))).
FormulaStep(target, pct) == Max(1, (target * (100 - pct)) \div 100)

\* The windows [k*step, min(n, k*step + target)) for k = 0, 1, ... up to and
\* including the first one whose end is n.
FormulaWindows(n, target, step) ==
  LET last == CHOOSE k \in 0..n :
                /\ k * step + target >= n
                /\ \A j \in 0..(k - 1) : j * step + target < n
  IN [k \in 1..(last + 1) |->
        [start |-> (k - 1) * step, end |-> Min({n, (k - 1) * step + target})]]

\* C22: _chunk_text returns exactly the windows tokens[k*step : min(n,
\* k*step + target)] joined with single spaces, for k = 0, 1, ... up to and
\* including the first window whose end is n, where step = max(1,
\* floor(target * (1 - overlap))); two consecutive full-size windows share
\* target - step tokens.
C22_WindowsByFormula ==
  (fn.op \in {"chunk", "windows"} /\ fn.n > 0) =>
    LET step == FormulaStep(fn.target, fn.pct)
        w == FormulaWindows(fn.n, fn.target, step)
        tokens == Tokens(fn.text)
    IN /\ fn.windows = w
       /\ fn.op = "chunk" =>
            fn.chunks = [k \in 1..Len(w) |->
                           JoinSpace(SubSeq(tokens, w[k].start + 1, w[k].end))]
       /\ \A k \in 1..(Len(fn.windows) - 1) :
            (/\ fn.windows[k].end - fn.windows[k].start = fn.target
             /\ fn.windows[k + 1].end - fn.windows[k + 1].start = fn.target)
            => fn.windows[k].end - fn.windows[k + 1].start = fn.target - step

\* C23: for a non-empty input exactly one emitted window ends at n and it is
\* the last one, so the final chunk holds a token (the last one) that no
\* earlier chunk holds.
C23_OneWindowReachesEnd ==
  (fn.op \in {"chunk", "windows"} /\ fn.n > 0) =>
    LET w == fn.windows
    IN /\ Len(w) >= 1
       /\ w[Len(w)].end = fn.n
       /\ \A k \in 1..(Len(w) - 1) : w[k].end < fn.n
       /\ w[Len(w)].start < w[Len(w)].end
       /\ \A k \in 1..(Len(w) - 1) :
            \E t \in w[Len(w)].start..(w[Len(w)].end - 1) :
              ~(w[k].start <= t /\ t < w[k].end)
       /\ fn.op = "chunk" => Len(fn.chunks) = Len(w)

\* The loop went round more than once and the last window is shorter than
\* the step, so that without the break another window would follow it.
C23_Witness ==
  /\ fn.op = "windows" /\ Len(fn.windows) >= 3
  /\ fn.step < fn.target
  /\ fn.windows[Len(fn.windows)].start + fn.step < fn.n

----------------------------------------------------------------------------
(* Further claims about retrieve, checked under SpecAsk *)

\* The position in the search's hits of the hit behind the k-th result.
HitIndex(k) ==
  CHOOSE i \in 1..Len(ask.hits) :
    Payload(ask.hits[i]).chunk_id = ask.docs[k].chunk_id

\* C24: hits of equal rerank score keep the order in which the search
\* returned them, both among the results kept and in deciding which of them
\* is cut off after the fourth.
C24_TiesKeepSearchOrder ==
  ask.retrieved =>
    /\ \A k \in 1..Len(ask.docs), l \in 1..Len(ask.docs) :
         (k < l /\ ask.docs[k].score = ask.docs[l].score)
         => HitIndex(k) < HitIndex(l)
    /\ \A i \in 1..Len(ask.hits) :
         (\A k \in 1..Len(ask.docs) : HitIndex(k) # i)
         => \A k \in 1..Len(ask.docs) :
              ask.docs[k].score = RerankScore(ask.question, ask.hits[i])
              => HitIndex(k) < i

\* Two of the results kept have the same score, and a hit that was cut off
\* has the score of the last result kept.
C24_Witness ==
  /\ ask.retrieved /\ Len(ask.docs) = Keep
  /\ \E k \in 1..(Keep - 1) : ask.docs[k].score = ask.docs[k + 1].score
  /\ \E i \in 1..Len(ask.hits) :
       /\ \A k \in 1..Keep : HitIndex(k) # i
       /\ RerankScore(ask.question, ask.hits[i]) = ask.docs[Keep].score

----------------------------------------------------------------------------
(* Further claims about the prompt context, checked under SpecHist *)

\* The pieces of a block's header: "[", filename, " p", page_start, "-",
\* page_end, " | ", chunk_id, "]" and the newline.
HeaderLen == 10

\* Where the k-th block starts in a context of one block per result with
\* one separator between neighbours.
RECURSIVE BlockOffset(_, _)
BlockOffset(docs, k) ==
  IF k = 1 THEN 0
  ELSE BlockOffset(docs, k - 1) + HeaderLen + Len(docs[k - 1].text) + 1

\* C25: the context is one block per ranked result, in their order, each the
\* header '[<filename> p<page_start>-<page_end> | <chunk_id>]', a newline
\* and the result's text, with one blank line between neighbours and
\* nothing else.
C25_ContextOneBlockPerResult ==
  (sess.path = "enhanced" /\ sess.synthesized) =>
    LET c == sess.genContext
        d == sess.docs
        n == Len(d)
    IN /\ n >= 1
       /\ Len(c) = BlockOffset(d, n) + HeaderLen + Len(d[n].text)
       /\ \A k \in 1..n :
            LET o == BlockOffset(d, k) IN
            /\ SubSeq(c, o + 1, o + HeaderLen) =
                 <<"[", d[k].filename, " p", ToString(d[k].page_start), "-",
                   ToString(d[k].page_end), " | ", ToString(d[k].chunk_id),
                   "]", "\n">>
            /\ SubSeq(c, o + HeaderLen + 1, o + HeaderLen + Len(d[k].text)) = d[k].text
            /\ k < n => c[o + HeaderLen + Len(d[k].text) + 1] = "\n\n"
       /\ Cardinality({i \in 1..Len(c) : c[i] = "["}) = n
       /\ Cardinality({i \in 1..Len(c) : c[i] = "\n\n"}) = n - 1

\* A context was composed for two ranked results.
C25_Witness ==
  /\ sess.path = "enhanced" /\ sess.synthesized
  /\ Len(sess.docs) = 2 /\ sess.genContext # <<>>

----------------------------------------------------------------------------
(* Claims about _load_document, checked under SpecText *)

\* C26: _load_document dispatches on the extension of the declared name. A
\* .pdf file gives one tuple per page in page order with page_start =
\* page_end = the page's number from 1, a page whose text cannot be
\* extracted giving the empty string without aborting the document; every
\* other extension gives the single tuple (1, 1, content), the content as
\* normalize_text leaves it.
C26_LoadDispatchesOnExtension ==
  fn.op = "load" =>
    LET f == fn.file IN
    /\ ~fn.raised
    /\ IF Lower(Suffix(f.filename)) = ".pdf"
       THEN /\ Len(fn.spans) = Len(f.pages)
            /\ \A i \in 1..Len(f.pages) :
                 /\ fn.spans[i].page_start = i /\ fn.spans[i].page_end = i
                 /\ fn.spans[i].text =
                      (IF f.pages[i] \in {NoneValue, ExtractRaises} THEN <<>>
                       ELSE NormalizeText(f.pages[i]))
       ELSE fn.spans = <<[page_start |-> 1, page_end |-> 1,
                          text |-> NormalizeText(f.pages[1])]>>

----------------------------------------------------------------------------
(* Claims about delete_document, checked under SpecDelete *)

\* The points of the document recorded under doc_id.
PointsOfRecord(doc_id) == {p \in up.before : DbId(Payload(p).doc_id) = doc_id}

\* C27: delete_document removes the document's record and no other, and
\* leaves the collection as it was: the points of a deleted document stay,
\* and a search made afterwards ranks them with the others.
C27_DeleteLeavesIndex ==
  /\ coll.points = up.before
  /\ {d.doc_id : d \in documents}
       = {DbId(Payload(p).doc_id) : p \in up.before} \ up.deleted
  /\ \A id \in up.deleted :
       PointsOfRecord(id) # {} /\ PointsOfRecord(id) \subseteq coll.points
  /\ ask.retrieved =>
       /\ ask.hits = Search([coll EXCEPT !.points = up.before], ask.question,
                            CoarseLimit)
       /\ ask.docs = Rerank(ask.question, ask.hits)

\* A question asked after a document was deleted is answered with a
\* citation of one of that document's chunks.
C27_Witness ==
  /\ up.deleted # {} /\ up.askpc = "idle"
  /\ ask.pc = "done" /\ ask.retrieved
  /\ Len(ask.citations) = Len(ask.docs)
  /\ \E k \in 1..Len(ask.citations) :
       DbId(ask.docs[k].chunk_id[1]) \in up.deleted

----------------------------------------------------------------------------
(* Claims about the ingest of app_enhanced.py, checked under SpecUpload *)

\* C28: every doc_id returned by an ingest request is the doc_id of a
\* record the request created, and is the doc_id in the payload of the
\* points of the file at its position.
C28_ReturnedIdsAreRecords ==
  (up.pc = "done" /\ up.response.kind = "response") =>
    /\ Len(up.response.doc_ids) = Len(up.files)
    /\ \A j \in 1..Len(up.response.doc_ids) :
         /\ \E d \in documents :
              /\ d.doc_id = up.response.doc_ids[j]
              /\ d.doc_id \in Range(up.doc_ids)
         /\ \A k \in 1..Len(batch.points) :
              batch.points[k].payload.filename = up.files[j].filename
              => \E i \in 1..Len(up.files) :
                   /\ up.files[i].filename = up.files[j].filename
                   /\ batch.points[k].payload.doc_id = up.response.doc_ids[i]

\* C29: once the request has finished, with a response or an error, every
\* record it created has status 'completed' or 'failed'.
C29_NoRecordLeftProcessing ==
  up.pc = "done" =>
    \A d \in documents :
      d.doc_id \in Range(up.doc_ids) => d.status \in {"completed", "failed"}

----------------------------------------------------------------------------
(* Claims about the history prefix, checked under SpecHist *)

\* The turns the session held before the current question was asked.
PriorTurns == {i \in 1..Len(sess.msgs) : sess.msgs[i] = StoredMessage(i)}

\* C30: the history prefix of a request holds only turns stored before the
\* current question: the question occurs exactly once in the retrieval
\* query (no earlier turn having its text), none of the prefix's lines is
\* the current question's, and the first question of a new session is
\* retrieved as it is, with no prefix.
C30_PrefixOnlyEarlierTurns ==
  sess.query # <<>> =>
    /\ Cardinality({i \in 1..Len(sess.query) : sess.query[i] = sess.question[1]}) = 1
    /\ ~Contains(sess.context, ContextLine([role |-> "user", content |-> sess.question]))
    /\ PriorTurns = {} => sess.query = sess.question

====
